---- MODULE Spec2Model ----
(***************************************************************************)
(* Data-access layer of RDWNTelegramBot: the four tables declared in       *)
(* database/schema/models.py (Topics, Users, Events, Polls) and the        *)
(* handler operations of database/telegram_bot/db_handlers.py.             *)
(*                                                                         *)
(* A table is a function from the surrogate ids of its rows to the rows.   *)
(* Python's None is the string "None"; a float is modelled by an integer   *)
(* number of degrees.  `res` records the handler call that completed last: *)
(* its name, its arguments, the exception it raised (NoExc when it         *)
(* returned) and the value it returned.                                    *)
(***************************************************************************)
EXTENDS Integers, Sequences, FiniteSets, TLC

VARIABLES topics, users, events, polls, nextId, res, pc, loc

vars == <<topics, users, events, polls, nextId, res, pc, loc>>
store == <<topics, users, events, polls, nextId>>

\* ---------------------------------------------------------------- bounds
\* Rows ever inserted in each table (surrogate ids are 1..Max).
MaxTopics == 2
MaxUsers == 2
MaxEvents == 2
MaxPolls == 2

\* ---------------------------------------------------------------- inputs
None == "None"
NoExc == "NoExc"

TopicIds == {100, 200}
TopicNames == {"General"}
\* Names handed to rename_topic: the one topics are created with and another.
NewTopicNames == TopicNames \cup {"Airsoft"}
\* The Telegram account ids in use: account 10 + i is the one row i is seeded for.
TelegramIds == {10 + i : i \in 1..MaxUsers}
Callsigns == {"alpha", "bravo"}
Warns == {0, 1}
Callers == {"c1", "c2"}

\* latitude/longitude validators of the schema: MinValueValidator(-90.0),
\* MaxValueValidator(90.0) on both columns.
MinCoord == 0 - 90
MaxCoord == 90

\* event_data dictionaries handed to create_event_details: one latitude is
\* outside the validators' range.
EventDatas ==
    [topic: TopicIds, event_name: {"Meetup"}, event_link: {None},
     organizer_rules: {None}, latitude: {10, 91}, longitude: {20},
     price: {0}, expire_date: {1}]

\* The column each event update handler assigns, and the values handed to
\* it: one value no event is created with and, for the two coordinates, one
\* outside the validators' range.
EventColumn ==
    [update_event_name |-> "event_name", update_event_link |-> "event_link",
     update_organizer_rules |-> "organizer_rules", update_latitude |-> "latitude",
     update_longitude |-> "longitude", update_price |-> "price",
     update_expire_date |-> "expire_date"]

NewValues ==
    [event_name |-> {"Raid"}, event_link |-> {"t.me/raid"},
     organizer_rules |-> {"No full-auto"}, latitude |-> {11, 91},
     longitude |-> {21, 91}, price |-> {5}, expire_date |-> {2}]

\* poll_data dictionaries handed to create_poll_results.
PollDatas ==
    [user_id: 1..MaxUsers, event_id: 1..MaxEvents, visitation: {TRUE},
     reason: {None}, car: {FALSE}, hitchhike: {None},
     start_location: {"base"}]

\* users_ids lists handed to add_users: every list of at most two ids.
UserIdLists ==
    {<<>>} \cup {<<a>> : a \in TelegramIds}
           \cup {<<a, b>> : a \in TelegramIds, b \in TelegramIds}

\* ---------------------------------------------------------------- schema
\* Users row as Users.create(telegram_id=...) stores it: the column defaults.
NewUser(telegram_id) ==
    [telegram_id |-> telegram_id, admin |-> FALSE, reserved |-> FALSE,
     warn |-> 0, callsign |-> None]

\* Variant of CallsignUnique: the column declared without unique=True.
NoUniqueConstraint(us, id, row) == TRUE

\* The unique constraint on Users.callsign (NULLs never collide): may row
\* `id` be written with `row` into table `us`?
CallsignUnique(us, id, row) ==
    \/ row.callsign = None
    \/ \A o \in DOMAIN us : o # id => us[o].callsign # row.callsign

\* The validators of EventDetails.latitude and EventDetails.longitude.
CoordsValid(row) ==
    /\ MinCoord <= row.latitude /\ row.latitude <= MaxCoord
    /\ MinCoord <= row.longitude /\ row.longitude <= MaxCoord

\* Table `t` without the rows whose ids are in `ids`.
Without(t, ids) == [k \in DOMAIN t \ ids |-> t[k]]

\* Table `t` with row `id` set to `row` (inserted when absent).
With(t, id, row) == [k \in DOMAIN t \cup {id} |-> IF k = id THEN row ELSE t[k]]

\* Variants of PollsOfUser and EventsOfTopic: a relation that does not
\* cascade.
PollsKept(ps, uid) == {}
EventsKept(es, tid) == {}

\* Rows that reference a deleted parent and go with it (ON DELETE CASCADE).
PollsOfUser(ps, uid) == {p \in DOMAIN ps : ps[p].user = uid}
PollsOfEvent(ps, eid) == {p \in DOMAIN ps : ps[p].event = eid}
PollsOfEvents(ps, eids) == {p \in DOMAIN ps : ps[p].event \in eids}
\* EventDetails.topic is a ForeignKeyField with no on_delete argument: the
\* field's default, CASCADE, applies.
EventsOfTopic(es, tid) == {e \in DOMAIN es : es[e].topic = tid}

\* ---------------------------------------------------------------- queries
\* Model.filter(column=value): the ids of the matching rows.
TopicsByTopicId(topic_id) == {t \in DOMAIN topics : topics[t].topic_id = topic_id}
UsersByTelegramId(telegram_id) ==
    {u \in DOMAIN users : users[u].telegram_id = telegram_id}

\* The record of a completed handler call.
Result(op, arg, exc, val) == [op |-> op, arg |-> arg, exc |-> exc, val |-> val]

\* ---------------------------------------------------------------- initial
\* The store the bot is started on.  No handler sets Users.admin, so the
\* rows present at start are the ones the operator provisioned: rows 1..n,
\* row i for account 10 + i, with the schema's defaults for reserved, warn
\* and callsign; the first row may be an administrator's.
SeedUsers ==
    {us \in UNION {[S -> [telegram_id: TelegramIds, admin: BOOLEAN,
                          reserved: {FALSE}, warn: {0}, callsign: {None}]]
                   : S \in {1..n : n \in 0..MaxUsers}} :
        \A i \in DOMAIN us : /\ us[i].telegram_id = 10 + i
                             /\ us[i].admin => i = 1}

Init ==
    /\ topics = <<>>
    /\ events = <<>>
    /\ polls = <<>>
    /\ users \in SeedUsers
    /\ nextId = [topics |-> 1, users |-> Len(users) + 1, events |-> 1, polls |-> 1]
    /\ res = Result("start", <<>>, NoExc, None)
    /\ pc = [c \in Callers |-> "idle"]
    /\ loc = [c \in Callers |-> <<>>]

\* The callers of the concurrent specification are at rest in the others.
Rest == UNCHANGED <<pc, loc>>

\* ------------------------------------------------------------ UsersHandler
\* A Users model instance: the row and its primary key.
UserObj(id, row) ==
    [id |-> id, telegram_id |-> row.telegram_id, admin |-> row.admin,
     reserved |-> row.reserved, warn |-> row.warn, callsign |-> row.callsign]

\* Variant of UserRow: a save that makes the user an administrator.
UserRowPromoting(obj) ==
    [telegram_id |-> obj.telegram_id, admin |-> TRUE,
     reserved |-> obj.reserved, warn |-> obj.warn, callsign |-> obj.callsign]

\* The row an instance is saved as (Model.save() writes every column).
UserRow(obj) ==
    [telegram_id |-> obj.telegram_id, admin |-> obj.admin,
     reserved |-> obj.reserved, warn |-> obj.warn, callsign |-> obj.callsign]

\* Variant of UnawaitedFirst: a lookup that never finds a row.
NeverFound(us, telegram_id) == None

\* `Users.filter(telegram_id=telegram_id).first()` as add_users evaluates
\* it, without await: the query object itself, whatever the table holds.
UnawaitedFirst(us, telegram_id) == "QuerySetSingle"

\* Python's `not x` on what add_users tests: only None is falsy, a query
\* object is truthy.
PyNot(x) == x = None

\* The loop of add_users over the rest of users_ids: the table, the next
\* surrogate id and the list of added instances it ends with.  The record
\* of an add_users call also tells whether the call before it was add_users
\* with the same list (`again`).
RECURSIVE AddUsersLoop(_, _, _, _)
AddUsersLoop(ids, us, nid, added) ==
    IF ids = <<>>
    THEN [users |-> us, next |-> nid, added |-> added]
    ELSE LET telegram_id == Head(ids)
             user == UnawaitedFirst(us, telegram_id)
         IN  IF PyNot(user)
             THEN AddUsersLoop(Tail(ids), With(us, nid, NewUser(telegram_id)),
                               nid + 1,
                               Append(added, UserObj(nid, NewUser(telegram_id))))
             ELSE AddUsersLoop(Tail(ids), us, nid, added)

add_users ==
    \E users_ids \in UserIdLists :
        LET out == AddUsersLoop(users_ids, users, nextId.users, <<>>) IN
        /\ out.next <= MaxUsers + 1
        /\ users' = out.users
        /\ nextId' = [nextId EXCEPT !.users = out.next]
        /\ res' = [op |-> "add_users", arg |-> users_ids, exc |-> NoExc,
                   val |-> out.added,
                   again |-> (res.op = "add_users" /\ res.arg = users_ids)]
        /\ UNCHANGED <<topics, events, polls>>
        /\ Rest

\* Variant of is_user_admin: a lookup that raises, like the other reads, when
\* no user carries the id.
is_user_admin_raising ==
    \E telegram_id \in TelegramIds :
        /\ \/ /\ UsersByTelegramId(telegram_id) = {}
              /\ res' = Result("is_user_admin", telegram_id, "DoesNotExist", "User")
           \/ \E u \in UsersByTelegramId(telegram_id) :
                 res' = Result("is_user_admin", telegram_id, NoExc, users[u].admin)
        /\ UNCHANGED store
        /\ Rest

is_user_admin ==
    \E telegram_id \in TelegramIds :
        /\ \/ /\ UsersByTelegramId(telegram_id) = {}
              /\ res' = Result("is_user_admin", telegram_id, NoExc, FALSE)
           \/ \E u \in UsersByTelegramId(telegram_id) :
                 res' = Result("is_user_admin", telegram_id, NoExc, users[u].admin)
        /\ UNCHANGED store
        /\ Rest

get_user_info ==
    \E telegram_id \in TelegramIds :
        /\ \/ /\ UsersByTelegramId(telegram_id) = {}
              /\ res' = Result("get_user_info", telegram_id, "DoesNotExist", "User")
           \/ \E u \in UsersByTelegramId(telegram_id) :
                 res' = Result("get_user_info", telegram_id, NoExc,
                               UserObj(u, users[u]))
        /\ UNCHANGED store
        /\ Rest

\* user.delete(): the row goes, and with it the Polls rows that reference it.
DeleteUserRow(u) ==
    /\ users' = Without(users, {u})
    /\ polls' = Without(polls, PollsOfUser(polls, u))

delete_user ==
    \E telegram_id \in TelegramIds :
        /\ \/ /\ UsersByTelegramId(telegram_id) = {}
              /\ res' = Result("delete_user", telegram_id, "DoesNotExist", "User")
              /\ UNCHANGED <<users, polls>>
           \/ \E u \in UsersByTelegramId(telegram_id) :
                 /\ DeleteUserRow(u)
                 /\ res' = Result("delete_user", telegram_id, NoExc, None)
        /\ UNCHANGED <<topics, events, nextId>>
        /\ Rest

\* Variant of CallsignTaken: the pre-check left out.
CallsignNeverTaken(us, new_callsign) == FALSE

\* The pre-check of update_callsign:
\* `existing_user = await Users.filter(callsign=new_callsign).first()`,
\* truthy when any row holds the callsign.
CallsignTaken(us, new_callsign) ==
    \E o \in DOMAIN us : us[o].callsign = new_callsign

\* The messages of the two IntegrityErrors: the handler's own, and the one
\* the store raises when a write breaks the unique constraint on callsign.
CallsignExists == "Callsign already exists."
UniqueFailed == "UNIQUE constraint failed: Users.callsign"

\* Variant of SaveUser: the write goes through whatever the other rows hold.
SaveUserUnchecked(us, user) ==
    IF user.id \notin DOMAIN us
    THEN [exc |-> NoExc, val |-> user, users |-> us]
    ELSE [exc |-> NoExc, val |-> user, users |-> With(us, user.id, UserRow(user))]

\* `await user.save()` against table `us`: an UPDATE of every column of the
\* row with the instance's primary key.  It changes nothing when the row is
\* gone, and the store refuses it when it breaks the unique constraint.
SaveUser(us, user) ==
    IF user.id \notin DOMAIN us
    THEN [exc |-> NoExc, val |-> user, users |-> us]
    ELSE IF ~CallsignUnique(us, user.id, UserRow(user))
    THEN [exc |-> "IntegrityError", val |-> UniqueFailed, users |-> us]
    ELSE [exc |-> NoExc, val |-> user, users |-> With(us, user.id, UserRow(user))]

\* Variants of FlipReserved and SetWarn: the flag set rather than flipped,
\* the count added to rather than replaced.
SetReserved(user) == [user EXCEPT !.reserved = TRUE]
AddWarn(user, warn) == [user EXCEPT !.warn = @ + warn]

\* The in-memory assignments the update handlers make before saving.
SetCallsign(user, new_callsign) == [user EXCEPT !.callsign = new_callsign]
FlipReserved(user) == [user EXCEPT !.reserved = ~user.reserved]
SetWarn(user, warn) == [user EXCEPT !.warn = warn]

update_callsign ==
    \E telegram_id \in TelegramIds, new_callsign \in Callsigns :
        LET arg == <<telegram_id, new_callsign>> IN
        /\ \/ /\ UsersByTelegramId(telegram_id) = {}
              /\ res' = Result("update_callsign", arg, "DoesNotExist", "User")
              /\ UNCHANGED users
           \/ \E u \in UsersByTelegramId(telegram_id) :
                 IF CallsignTaken(users, new_callsign)
                 THEN /\ res' = Result("update_callsign", arg, "IntegrityError",
                                       CallsignExists)
                      /\ UNCHANGED users
                 ELSE LET out == SaveUser(users, SetCallsign(UserObj(u, users[u]),
                                                             new_callsign))
                      IN  /\ users' = out.users
                          /\ res' = Result("update_callsign", arg, out.exc, out.val)
        /\ UNCHANGED <<topics, events, polls, nextId>>
        /\ Rest

update_reserved ==
    \E telegram_id \in TelegramIds :
        /\ \/ /\ UsersByTelegramId(telegram_id) = {}
              /\ res' = Result("update_reserved", telegram_id, "DoesNotExist", "User")
              /\ UNCHANGED users
           \/ \E u \in UsersByTelegramId(telegram_id) :
                 LET out == SaveUser(users, FlipReserved(UserObj(u, users[u])))
                 IN  /\ users' = out.users
                     /\ res' = Result("update_reserved", telegram_id, out.exc, out.val)
        /\ UNCHANGED <<topics, events, polls, nextId>>
        /\ Rest

update_warn ==
    \E telegram_id \in TelegramIds, warn \in Warns :
        LET arg == <<telegram_id, warn>> IN
        /\ \/ /\ UsersByTelegramId(telegram_id) = {}
              /\ res' = Result("update_warn", arg, "DoesNotExist", "User")
              /\ UNCHANGED users
           \/ \E u \in UsersByTelegramId(telegram_id) :
                 LET out == SaveUser(users, SetWarn(UserObj(u, users[u]), warn))
                 IN  /\ users' = out.users
                     /\ res' = Result("update_warn", arg, out.exc, out.val)
        /\ UNCHANGED <<topics, events, polls, nextId>>
        /\ Rest

\* The user handler, one call at a time.
NextUsers ==
    \/ add_users
    \/ is_user_admin
    \/ get_user_info
    \/ delete_user
    \/ update_callsign
    \/ update_reserved
    \/ update_warn

SpecUsers == Init /\ [][NextUsers]_vars

\* ------------------------------------------------- concurrent user updates
\* Several callers run user handlers at once.  A handler gives way to the
\* others at each `await`, so a call is one step per awaited store request:
\* the fetch, the pre-check of update_callsign, and the write.  loc[c] holds
\* the call's name, its arguments and the instance it fetched.
Begin(c, op, arg, user, at) ==
    /\ pc' = [pc EXCEPT ![c] = at]
    /\ loc' = [loc EXCEPT ![c] = [op |-> op, arg |-> arg, user |-> user]]
    /\ UNCHANGED res

\* The call of caller c ends: its record replaces `res`.
End(c, exc, val) ==
    /\ pc' = [pc EXCEPT ![c] = "idle"]
    /\ loc' = [loc EXCEPT ![c] = <<>>]
    /\ res' = Result(loc[c].op, loc[c].arg, exc, val)

\* The assignment handler `op` makes to the fetched instance before its next
\* await: update_reserved flips the flag and update_warn sets the count at
\* once, update_callsign assigns only after its pre-check, delete_user
\* assigns nothing.
Assigned(op, arg, user) ==
    IF op = "update_reserved" THEN FlipReserved(user)
    ELSE IF op = "update_warn" THEN SetWarn(user, arg[2])
    ELSE user

\* `user = await Users.filter(telegram_id=telegram_id).first()` and the
\* `if not user: raise DoesNotExist` of the handlers that write a row.
Fetch(c, op, arg, telegram_id, at) ==
    /\ pc[c] = "idle"
    /\ \/ /\ UsersByTelegramId(telegram_id) = {}
          /\ res' = Result(op, arg, "DoesNotExist", "User")
          /\ UNCHANGED <<pc, loc>>
       \/ \E u \in UsersByTelegramId(telegram_id) :
             Begin(c, op, arg, Assigned(op, arg, UserObj(u, users[u])), at)
    /\ UNCHANGED store

update_callsign_fetch(c) ==
    \E telegram_id \in TelegramIds, new_callsign \in Callsigns :
        Fetch(c, "update_callsign", <<telegram_id, new_callsign>>, telegram_id,
              "check")

\* The pre-check, and on success the assignment `user.callsign = new_callsign`.
update_callsign_check(c) ==
    /\ pc[c] = "check"
    /\ IF CallsignTaken(users, loc[c].arg[2])
       THEN End(c, "IntegrityError", CallsignExists)
       ELSE /\ pc' = [pc EXCEPT ![c] = "save"]
            /\ loc' = [loc EXCEPT ![c].user = SetCallsign(@, loc[c].arg[2])]
            /\ UNCHANGED res
    /\ UNCHANGED store

update_reserved_fetch(c) ==
    \E telegram_id \in TelegramIds :
        Fetch(c, "update_reserved", telegram_id, telegram_id, "save")

update_warn_fetch(c) ==
    \E telegram_id \in TelegramIds, warn \in Warns :
        Fetch(c, "update_warn", <<telegram_id, warn>>, telegram_id, "save")

delete_user_fetch(c) ==
    \E telegram_id \in TelegramIds :
        Fetch(c, "delete_user", telegram_id, telegram_id, "delete")

\* Variant of user_save: the write applies the handler's assignment to the
\* row as it is stored at the time of the write, not as it was fetched.
user_save_fresh(c) ==
    /\ pc[c] = "save"
    /\ LET id == loc[c].user.id
           cur == IF id \in DOMAIN users
                  THEN Assigned(loc[c].op, loc[c].arg, UserObj(id, users[id]))
                  ELSE loc[c].user
           out == SaveUser(users, cur)
       IN  /\ users' = out.users
           /\ End(c, out.exc, out.val)
    /\ UNCHANGED <<topics, events, polls, nextId>>

\* `await user.save()` of update_callsign, update_reserved and update_warn.
user_save(c) ==
    /\ pc[c] = "save"
    /\ LET out == SaveUser(users, loc[c].user) IN
       /\ users' = out.users
       /\ End(c, out.exc, out.val)
    /\ UNCHANGED <<topics, events, polls, nextId>>

\* `await user.delete()` of delete_user.
user_delete(c) ==
    /\ pc[c] = "delete"
    /\ DeleteUserRow(loc[c].user.id)
    /\ End(c, NoExc, None)
    /\ UNCHANGED <<topics, events, nextId>>

NextConc ==
    \E c \in Callers :
        \/ update_callsign_fetch(c)
        \/ update_callsign_check(c)
        \/ update_reserved_fetch(c)
        \/ delete_user_fetch(c)
        \/ user_save(c)
        \/ user_delete(c)

SpecConc == Init /\ [][NextConc]_vars

\* Callers that run update_reserved and update_warn at once.
NextRace ==
    \E c \in Callers :
        \/ update_reserved_fetch(c)
        \/ update_warn_fetch(c)
        \/ user_save(c)

SpecRace == Init /\ [][NextRace]_vars

\* C5: no two users hold the same callsign, whatever the callers do and
\* however their steps interleave.
C5_CallsignsUnique ==
    \A a, b \in DOMAIN users :
        a # b /\ users[a].callsign # None => users[a].callsign # users[b].callsign

\* Two users hold a callsign each while a third write is under way.
C5_Witness ==
    /\ \E a, b \in DOMAIN users :
          a # b /\ users[a].callsign # None /\ users[b].callsign # None
    /\ \E c \in Callers : pc[c] = "save" /\ loc[c].op = "update_callsign"

\* Callers c and d have both passed the pre-check of update_callsign with the
\* same callsign for two different users, and neither has written yet.
BothPassed(c, d) ==
    /\ c # d
    /\ pc[c] = "save" /\ loc[c].op = "update_callsign"
    /\ pc[d] = "save" /\ loc[d].op = "update_callsign"
    /\ loc[c].arg[2] = loc[d].arg[2]
    /\ loc[c].user.id # loc[d].user.id

\* C6: two update_callsign calls for different users can both pass the
\* pre-check (the witness); the write of a call that passed it is refused by
\* the store, and changes nothing, when another user holds the callsign by
\* the time it is made, so at most one of the two writes is persisted.
C6_RaceLosesAtStore ==
    [][\A c \in Callers :
          (/\ pc[c] = "save" /\ pc'[c] = "idle"
           /\ loc[c].op = "update_callsign"
           /\ loc[c].user.id \in DOMAIN users
           /\ \E o \in DOMAIN users \ {loc[c].user.id} :
                 users[o].callsign = loc[c].arg[2])
          => /\ users' = users
             /\ res'.exc = "IntegrityError"
             /\ res'.val = UniqueFailed]_vars

\* Both calls have passed the pre-check, both users exist and nobody holds
\* the callsign yet.
C6_Witness ==
    \E c, d \in Callers :
        /\ BothPassed(c, d)
        /\ {loc[c].user.id, loc[d].user.id} \subseteq DOMAIN users
        /\ ~CallsignTaken(users, loc[c].arg[2])

\* The ids of a users_ids list, and the instances of a returned list.
Elems(seq) == {seq[i] : i \in 1..Len(seq)}

\* C1: add_users(ids) creates a row with the column defaults for every id of
\* the list that no user carries, creates nothing for the others, and
\* returns exactly the users it created.
C1_AddUsersCreatesMissing ==
    [][res'.op = "add_users" =>
        LET missing == {id \in Elems(res'.arg) : UsersByTelegramId(id) = {}}
            created == DOMAIN users' \ DOMAIN users
        IN  /\ \A id \in missing : \E u \in created : users'[u] = NewUser(id)
            /\ \A u \in created : users'[u].telegram_id \in missing
            /\ Elems(res'.val) = {UserObj(u, users'[u]) : u \in created}]_vars

\* C2: add_users is idempotent: a call never leaves a second row for an id,
\* never touches an existing row, returns exactly the rows it created, and a
\* call that repeats the previous call's list returns the empty list and
\* leaves the users table as it was.
C2_AddUsersIdempotent ==
    [][res'.op = "add_users" =>
        LET created == DOMAIN users' \ DOMAIN users IN
        /\ \A id \in TelegramIds :
              Cardinality({u \in DOMAIN users' : users'[u].telegram_id = id})
                 <= IF UsersByTelegramId(id) = {} THEN 1
                    ELSE Cardinality(UsersByTelegramId(id))
        /\ \A u \in DOMAIN users : u \in DOMAIN users' /\ users'[u] = users[u]
        /\ Elems(res'.val) = {UserObj(u, users'[u]) : u \in created}
        /\ res'.again => res'.val = <<>> /\ users' = users]_vars

\* A second add_users call with the same non-empty list has returned, and an
\* id of the list is carried by a user.
C2_Witness ==
    /\ res.op = "add_users"
    /\ res.again
    /\ \E id \in Elems(res.arg) : UsersByTelegramId(id) # {}

\* C3: when a user holds callsign c, update_callsign(B, c) for another
\* existing user B raises the handler's IntegrityError and changes no row.
C3_ConflictKeepsHolder ==
    [][(/\ res'.op = "update_callsign"
        /\ \E a, b \in DOMAIN users :
              /\ a # b
              /\ users[a].callsign = res'.arg[2]
              /\ users[b].telegram_id = res'.arg[1])
       => /\ res'.exc = "IntegrityError"
          /\ res'.val = CallsignExists
          /\ UNCHANGED store]_vars

\* update_callsign(B, c) has just been refused while another user holds c.
C3_Witness ==
    /\ res.op = "update_callsign"
    /\ res.exc = "IntegrityError"
    /\ \E a, b \in DOMAIN users :
          /\ a # b
          /\ users[a].callsign = res.arg[2]
          /\ users[b].telegram_id = res.arg[1]
          /\ users[b].callsign # res.arg[2]

\* C4: update_callsign(u, c) succeeds whenever u exists and no user other
\* than u holds c (u itself may hold it): it persists c and returns the
\* updated user.
C4_ConflictOnlyForOthers ==
    [][res'.op = "update_callsign" =>
        \A u \in UsersByTelegramId(res'.arg[1]) :
            (\A o \in DOMAIN users \ {u} : users[o].callsign # res'.arg[2])
            => /\ res'.exc = NoExc
               /\ users'[u].callsign = res'.arg[2]
               /\ res'.val = UserObj(u, users'[u])]_vars

\* ----------------------------------------------------------- TopicsHandler
TopicInfo(id, row) ==
    [id |-> id, topic_id |-> row.topic_id, topic_name |-> row.topic_name]

\* Variant of create_topic: no second row for an identifier a topic already
\* carries (the existing topic is returned).
create_topic_unique ==
    \E topic_id \in TopicIds, topic_name \in TopicNames :
        LET row == [topic_id |-> topic_id, topic_name |-> topic_name] IN
        /\ nextId.topics <= MaxTopics
        /\ IF TopicsByTopicId(topic_id) = {}
           THEN /\ topics' = With(topics, nextId.topics, row)
                /\ nextId' = [nextId EXCEPT !.topics = @ + 1]
                /\ res' = Result("create_topic", <<topic_id, topic_name>>, NoExc,
                                 TopicInfo(nextId.topics, row))
           ELSE /\ UNCHANGED <<topics, nextId>>
                /\ \E t \in TopicsByTopicId(topic_id) :
                      res' = Result("create_topic", <<topic_id, topic_name>>, NoExc,
                                    TopicInfo(t, topics[t]))
        /\ UNCHANGED <<users, events, polls>>
        /\ Rest

create_topic ==
    \E topic_id \in TopicIds, topic_name \in TopicNames :
        LET row == [topic_id |-> topic_id, topic_name |-> topic_name] IN
        /\ nextId.topics <= MaxTopics
        /\ topics' = With(topics, nextId.topics, row)
        /\ nextId' = [nextId EXCEPT !.topics = @ + 1]
        /\ res' = Result("create_topic", <<topic_id, topic_name>>, NoExc,
                         TopicInfo(nextId.topics, row))
        /\ UNCHANGED <<users, events, polls>>
        /\ Rest

get_topic_info ==
    \E topic_id \in TopicIds :
        /\ \/ /\ TopicsByTopicId(topic_id) = {}
              /\ res' = Result("get_topic_info", topic_id, "DoesNotExist", "Topic")
           \/ \E t \in TopicsByTopicId(topic_id) :
                 res' = Result("get_topic_info", topic_id, NoExc,
                               TopicInfo(t, topics[t]))
        /\ UNCHANGED store
        /\ Rest

rename_topic ==
    \E topic_id \in TopicIds, new_topic_name \in NewTopicNames :
        LET arg == <<topic_id, new_topic_name>> IN
        /\ \/ /\ TopicsByTopicId(topic_id) = {}
              /\ res' = Result("rename_topic", arg, "DoesNotExist", "Topic")
              /\ UNCHANGED topics
           \/ \E t \in TopicsByTopicId(topic_id) :
                 /\ topics' = [topics EXCEPT ![t].topic_name = new_topic_name]
                 /\ res' = Result("rename_topic", arg, NoExc, None)
        /\ UNCHANGED <<users, events, polls, nextId>>
        /\ Rest

\* topic.delete(): the row goes, with the Events rows that reference it and
\* the Polls rows that reference those.
DeleteTopicRow(t) ==
    /\ topics' = Without(topics, {t})
    /\ events' = Without(events, EventsOfTopic(events, t))
    /\ polls' = Without(polls, PollsOfEvents(polls, EventsOfTopic(events, t)))

\* Variant of delete_topic: every row carrying the identifier is deleted.
delete_topic_all ==
    \E topic_id \in TopicIds :
        LET found == TopicsByTopicId(topic_id)
            gone == {e \in DOMAIN events : events[e].topic \in found}
        IN
        /\ \/ /\ found = {}
              /\ res' = Result("delete_topic", topic_id, "DoesNotExist", "Topic")
              /\ UNCHANGED <<topics, events, polls>>
           \/ /\ found # {}
              /\ topics' = Without(topics, found)
              /\ events' = Without(events, gone)
              /\ polls' = Without(polls, PollsOfEvents(polls, gone))
              /\ res' = Result("delete_topic", topic_id, NoExc, None)
        /\ UNCHANGED <<users, nextId>>
        /\ Rest

delete_topic ==
    \E topic_id \in TopicIds :
        /\ \/ /\ TopicsByTopicId(topic_id) = {}
              /\ res' = Result("delete_topic", topic_id, "DoesNotExist", "Topic")
              /\ UNCHANGED <<topics, events, polls>>
           \/ \E t \in TopicsByTopicId(topic_id) :
                 /\ DeleteTopicRow(t)
                 /\ res' = Result("delete_topic", topic_id, NoExc, None)
        /\ UNCHANGED <<users, nextId>>
        /\ Rest

\* The topic handler, one call at a time.
NextTopics ==
    \/ create_topic
    \/ get_topic_info
    \/ rename_topic
    \/ delete_topic

SpecTopics == Init /\ [][NextTopics]_vars

\* ----------------------------------------------------- EventDetailsHandler
\* _get_event_info(event) on an instance whose `topic` relation holds the
\* Topics instance `t` (create_event_details passes it to create()).
EventInfo(id, row, t) ==
    [id |-> id, event_name |-> row.event_name, event_link |-> row.event_link,
     organizer_rules |-> row.organizer_rules, latitude |-> row.latitude,
     longitude |-> row.longitude, price |-> row.price,
     expire_date |-> row.expire_date,
     topic_id |-> t, topic_name |-> topics[t].topic_name]

\* The row EventDetails.create() inserts for event_data and Topics row `t`.
EventRowOf(event_data, t) ==
    [topic |-> t, event_name |-> event_data.event_name,
     event_link |-> event_data.event_link,
     organizer_rules |-> event_data.organizer_rules,
     latitude |-> event_data.latitude, longitude |-> event_data.longitude,
     price |-> event_data.price, expire_date |-> event_data.expire_date]

\* Variant of TopicsGet: a lookup that falls back on any topic when none
\* carries the identifier.
TopicsGetAny(topic_id) ==
    LET found == TopicsByTopicId(topic_id) IN
    IF topics = <<>> THEN [exc |-> "DoesNotExist", row |-> 0]
    ELSE IF found = {}
         THEN [exc |-> NoExc, row |-> CHOOSE t \in DOMAIN topics : TRUE]
         ELSE IF Cardinality(found) > 1
              THEN [exc |-> "MultipleObjectsReturned", row |-> 0]
              ELSE [exc |-> NoExc, row |-> CHOOSE t \in found : TRUE]

\* `await Topics.get(topic_id=topic_id)`: the one matching row, or the
\* exception get() raises when there is none or more than one.
TopicsGet(topic_id) ==
    LET found == TopicsByTopicId(topic_id) IN
    IF found = {} THEN [exc |-> "DoesNotExist", row |-> 0]
    ELSE IF Cardinality(found) > 1
         THEN [exc |-> "MultipleObjectsReturned", row |-> 0]
         ELSE [exc |-> NoExc, row |-> CHOOSE t \in found : TRUE]

\* The caller's dictionary after `event_data.pop('topic', None)`: the key is
\* removed from the dictionary the caller passed.
Popped(event_data) == [k \in DOMAIN event_data \ {"topic"} |-> event_data[k]]

\* The record of a create_event_details call: it also tells what the call
\* has left of the caller's dictionary (`left`).
EventResult(event_data, exc, val) ==
    [op |-> "create_event_details", arg |-> event_data, exc |-> exc,
     val |-> val, left |-> Popped(event_data)]

\* create_event_details(event_data).  A dictionary without the key 'topic'
\* pops None, and Topics.get(topic_id=None) finds no row.
CreateEventDetails(event_data) ==
    LET got == IF "topic" \in DOMAIN event_data
               THEN TopicsGet(event_data.topic)
               ELSE [exc |-> "DoesNotExist", row |-> 0]
        row == EventRowOf(event_data, got.row)
    IN
    /\ IF got.exc = "DoesNotExist"
       THEN /\ res' = EventResult(event_data, "DoesNotExist", "Topic")
            /\ UNCHANGED <<events, nextId>>
       ELSE IF got.exc # NoExc
       THEN /\ res' = EventResult(event_data, got.exc, None)
            /\ UNCHANGED <<events, nextId>>
       ELSE IF ~CoordsValid(row)
       THEN /\ res' = EventResult(event_data, "ValidationError", None)
            /\ UNCHANGED <<events, nextId>>
       ELSE /\ nextId.events <= MaxEvents
            /\ events' = With(events, nextId.events, row)
            /\ nextId' = [nextId EXCEPT !.events = @ + 1]
            /\ res' = EventResult(event_data, NoExc,
                                  EventInfo(nextId.events, row, got.row))
    /\ UNCHANGED <<topics, users, polls>>
    /\ Rest

create_event_details ==
    \E event_data \in EventDatas : CreateEventDetails(event_data)

\* The caller of the previous create_event_details call calls it again with
\* the same dictionary, as the previous call left it.
create_event_details_again ==
    /\ res.op = "create_event_details"
    /\ CreateEventDetails(res.left)

\* Events created from dictionaries the callers keep.
NextAgain ==
    \/ create_topic
    \/ create_event_details
    \/ create_event_details_again

SpecAgain == Init /\ [][NextAgain]_vars

\* get_event_details: the instance EventDetails.get(id=...) returns has no
\* `topic` relation loaded, so `event.topic` in _get_event_info is a query
\* object and `event.topic.id` raises AttributeError.
get_event_details ==
    \E event_id \in 1..MaxEvents :
        /\ IF event_id \notin DOMAIN events
           THEN res' = Result("get_event_details", event_id, "DoesNotExist", "Event")
           ELSE res' = Result("get_event_details", event_id, "AttributeError", None)
        /\ UNCHANGED store
        /\ Rest

\* Variant of DeleteEventRow: a soft delete, the row stays in the table.
DeleteEventRowSoft(e) ==
    /\ UNCHANGED events
    /\ polls' = Without(polls, PollsOfEvent(polls, e))

\* event.delete(): the row goes, and with it the Polls rows that reference it.
DeleteEventRow(e) ==
    /\ events' = Without(events, {e})
    /\ polls' = Without(polls, PollsOfEvent(polls, e))

delete_event ==
    \E event_id \in 1..MaxEvents :
        /\ IF event_id \notin DOMAIN events
           THEN /\ res' = Result("delete_event", event_id, "DoesNotExist", "Event")
                /\ UNCHANGED <<events, polls>>
           ELSE /\ DeleteEventRow(event_id)
                /\ res' = Result("delete_event", event_id, NoExc, None)
        /\ UNCHANGED <<topics, users, nextId>>
        /\ Rest

\* Variant of UpdateEventField: an update of a missing event returns None
\* instead of raising.
UpdateEventFieldSilent(op, event_id, value) ==
    LET arg == <<event_id, value>> IN
    /\ IF event_id \notin DOMAIN events
       THEN /\ res' = Result(op, arg, NoExc, None)
            /\ UNCHANGED events
       ELSE LET row == [events[event_id] EXCEPT ![EventColumn[op]] = value] IN
            IF ~CoordsValid(row)
            THEN /\ res' = Result(op, arg, "ValidationError", None)
                 /\ UNCHANGED events
            ELSE /\ events' = With(events, event_id, row)
                 /\ res' = Result(op, arg, "AttributeError", None)
    /\ UNCHANGED <<topics, users, polls, nextId>>
    /\ Rest

\* The body the seven event update handlers share: EventDetails.get(id=...)
\* or DoesNotExist; the assignment of the handler's column; event.save(),
\* which runs the validators and writes the row; then _get_event_info on an
\* instance whose `topic` relation is not loaded, which raises
\* AttributeError after the row has been written.
UpdateEventField(op, event_id, value) ==
    LET arg == <<event_id, value>> IN
    /\ IF event_id \notin DOMAIN events
       THEN /\ res' = Result(op, arg, "DoesNotExist", "Event")
            /\ UNCHANGED events
       ELSE LET row == [events[event_id] EXCEPT ![EventColumn[op]] = value] IN
            IF ~CoordsValid(row)
            THEN /\ res' = Result(op, arg, "ValidationError", None)
                 /\ UNCHANGED events
            ELSE /\ events' = With(events, event_id, row)
                 /\ res' = Result(op, arg, "AttributeError", None)
    /\ UNCHANGED <<topics, users, polls, nextId>>
    /\ Rest

update_event_name ==
    \E event_id \in 1..MaxEvents, new_event_name \in NewValues.event_name :
        UpdateEventField("update_event_name", event_id, new_event_name)

update_event_link ==
    \E event_id \in 1..MaxEvents, new_event_link \in NewValues.event_link :
        UpdateEventField("update_event_link", event_id, new_event_link)

update_organizer_rules ==
    \E event_id \in 1..MaxEvents, new_organizer_rules \in NewValues.organizer_rules :
        UpdateEventField("update_organizer_rules", event_id, new_organizer_rules)

update_latitude ==
    \E event_id \in 1..MaxEvents, new_latitude \in NewValues.latitude :
        UpdateEventField("update_latitude", event_id, new_latitude)

update_longitude ==
    \E event_id \in 1..MaxEvents, new_longitude \in NewValues.longitude :
        UpdateEventField("update_longitude", event_id, new_longitude)

update_price ==
    \E event_id \in 1..MaxEvents, new_price \in NewValues.price :
        UpdateEventField("update_price", event_id, new_price)

update_expire_date ==
    \E event_id \in 1..MaxEvents, new_expire_date \in NewValues.expire_date :
        UpdateEventField("update_expire_date", event_id, new_expire_date)

\* ------------------------------------------------------- EventPollsHandler
\* _get_poll_results_info(poll) on an instance whose `user` and `event`
\* relations hold the instances create_poll_results passed to create().
PollInfo(id, row) ==
    [id |-> id, user_id |-> row.user, event_id |-> row.event,
     visitation |-> row.visitation, reason |-> row.reason, car |-> row.car,
     hitchhike |-> row.hitchhike, start_location |-> row.start_location]

PollRowOf(poll_data) ==
    [user |-> poll_data.user_id, event |-> poll_data.event_id,
     visitation |-> poll_data.visitation, reason |-> poll_data.reason,
     car |-> poll_data.car, hitchhike |-> poll_data.hitchhike,
     start_location |-> poll_data.start_location]

\* Variant of create_poll_results: the event resolved before the user.
create_poll_results_event_first ==
    \E poll_data \in PollDatas :
        /\ IF poll_data.event_id \notin DOMAIN events
           THEN /\ res' = Result("create_poll_results", poll_data,
                                 "DoesNotExist", "Event")
                /\ UNCHANGED <<polls, nextId>>
           ELSE IF poll_data.user_id \notin DOMAIN users
           THEN /\ res' = Result("create_poll_results", poll_data,
                                 "DoesNotExist", "User")
                /\ UNCHANGED <<polls, nextId>>
           ELSE /\ nextId.polls <= MaxPolls
                /\ polls' = With(polls, nextId.polls, PollRowOf(poll_data))
                /\ nextId' = [nextId EXCEPT !.polls = @ + 1]
                /\ res' = Result("create_poll_results", poll_data, NoExc,
                                 PollInfo(nextId.polls, PollRowOf(poll_data)))
        /\ UNCHANGED <<topics, users, events>>
        /\ Rest

create_poll_results ==
    \E poll_data \in PollDatas :
        /\ IF poll_data.user_id \notin DOMAIN users
           THEN /\ res' = Result("create_poll_results", poll_data,
                                 "DoesNotExist", "User")
                /\ UNCHANGED <<polls, nextId>>
           ELSE IF poll_data.event_id \notin DOMAIN events
           THEN /\ res' = Result("create_poll_results", poll_data,
                                 "DoesNotExist", "Event")
                /\ UNCHANGED <<polls, nextId>>
           ELSE /\ nextId.polls <= MaxPolls
                /\ polls' = With(polls, nextId.polls, PollRowOf(poll_data))
                /\ nextId' = [nextId EXCEPT !.polls = @ + 1]
                /\ res' = Result("create_poll_results", poll_data, NoExc,
                                 PollInfo(nextId.polls, PollRowOf(poll_data)))
        /\ UNCHANGED <<topics, users, events>>
        /\ Rest

\* Variant of get_poll_results_by_user_id: the DoesNotExist of the poll
\* lookup is not caught.
get_poll_results_uncaught ==
    \E user_id \in 1..MaxUsers :
        /\ IF user_id \notin DOMAIN users
           THEN res' = Result("get_poll_results_by_user_id", user_id,
                              "DoesNotExist", "User")
           ELSE IF PollsOfUser(polls, user_id) = {}
           THEN res' = Result("get_poll_results_by_user_id", user_id,
                              "DoesNotExist", "Poll")
           ELSE IF Cardinality(PollsOfUser(polls, user_id)) > 1
           THEN res' = Result("get_poll_results_by_user_id", user_id,
                              "MultipleObjectsReturned", None)
           ELSE res' = Result("get_poll_results_by_user_id", user_id,
                              "AttributeError", None)
        /\ UNCHANGED store
        /\ Rest

\* get_poll_results_by_user_id: EventPolls.get(user=user) raises when the
\* user has several polls; the instance it returns has no `user` relation
\* loaded, so `poll.user.id` in _get_poll_results_info raises AttributeError.
get_poll_results_by_user_id ==
    \E user_id \in 1..MaxUsers :
        /\ IF user_id \notin DOMAIN users
           THEN res' = Result("get_poll_results_by_user_id", user_id,
                              "DoesNotExist", "User")
           ELSE IF PollsOfUser(polls, user_id) = {}
           THEN res' = Result("get_poll_results_by_user_id", user_id, NoExc, None)
           ELSE IF Cardinality(PollsOfUser(polls, user_id)) > 1
           THEN res' = Result("get_poll_results_by_user_id", user_id,
                              "MultipleObjectsReturned", None)
           ELSE res' = Result("get_poll_results_by_user_id", user_id,
                              "AttributeError", None)
        /\ UNCHANGED store
        /\ Rest

delete_poll_results ==
    \E poll_id \in 1..MaxPolls :
        /\ IF poll_id \notin DOMAIN polls
           THEN /\ res' = Result("delete_poll_results", poll_id, "DoesNotExist", "Poll")
                /\ UNCHANGED polls
           ELSE /\ polls' = Without(polls, {poll_id})
                /\ res' = Result("delete_poll_results", poll_id, NoExc, None)
        /\ UNCHANGED <<topics, users, events, nextId>>
        /\ Rest

\* ------------------------------------------------ concurrent poll creation
\* Several callers create polls and delete users and events at once, one
\* step per awaited store request.  loc[c] holds the call's name and its
\* arguments.
BeginCall(c, op, arg, at) ==
    /\ pc' = [pc EXCEPT ![c] = at]
    /\ loc' = [loc EXCEPT ![c] = [op |-> op, arg |-> arg]]
    /\ UNCHANGED res

\* Variant of PollRefsExist: a store that does not enforce foreign keys.
NoForeignKeys(us, es, row) == TRUE

\* The foreign keys of EventPollResults (user, event): may `row` be
\* inserted while the tables hold `us` and `es`?
PollRefsExist(us, es, row) == row.user \in DOMAIN us /\ row.event \in DOMAIN es

ForeignKeyFailed == "FOREIGN KEY constraint failed"

\* `user = await Users.get(id=poll_data['user_id'])`.
create_poll_results_user(c) ==
    \E poll_data \in PollDatas :
        /\ pc[c] = "idle"
        /\ nextId.polls <= MaxPolls
        /\ IF poll_data.user_id \notin DOMAIN users
           THEN /\ res' = Result("create_poll_results", poll_data,
                                 "DoesNotExist", "User")
                /\ UNCHANGED <<pc, loc>>
           ELSE BeginCall(c, "create_poll_results", poll_data, "poll_event")
        /\ UNCHANGED store

\* `event = await EventDetails.get(id=poll_data['event_id'])`.
create_poll_results_event(c) ==
    /\ pc[c] = "poll_event"
    /\ IF loc[c].arg.event_id \notin DOMAIN events
       THEN End(c, "DoesNotExist", "Event")
       ELSE /\ pc' = [pc EXCEPT ![c] = "poll_create"]
            /\ UNCHANGED <<loc, res>>
    /\ UNCHANGED store

\* `poll = await EventPolls.create(user=user, event=event, ...)`: an INSERT
\* with the primary keys of the instances fetched earlier, which the store
\* refuses when one of the rows is gone by now.
create_poll_results_create(c) ==
    /\ pc[c] = "poll_create"
    /\ LET row == PollRowOf(loc[c].arg) IN
       IF ~PollRefsExist(users, events, row)
       THEN /\ End(c, "IntegrityError", ForeignKeyFailed)
            /\ UNCHANGED <<polls, nextId>>
       ELSE /\ nextId.polls <= MaxPolls
            /\ polls' = With(polls, nextId.polls, row)
            /\ nextId' = [nextId EXCEPT !.polls = @ + 1]
            /\ End(c, NoExc, PollInfo(nextId.polls, row))
    /\ UNCHANGED <<topics, users, events>>

\* `event = await EventDetails.get(id=event_id)` of delete_event.
delete_event_fetch(c) ==
    \E event_id \in 1..MaxEvents :
        /\ pc[c] = "idle"
        /\ IF event_id \notin DOMAIN events
           THEN /\ res' = Result("delete_event", event_id, "DoesNotExist", "Event")
                /\ UNCHANGED <<pc, loc>>
           ELSE BeginCall(c, "delete_event", event_id, "delete_event")
        /\ UNCHANGED store

\* `await event.delete()` of delete_event.
event_delete(c) ==
    /\ pc[c] = "delete_event"
    /\ DeleteEventRow(loc[c].arg)
    /\ End(c, NoExc, None)
    /\ UNCHANGED <<topics, users, nextId>>

\* Topics and events are created by calls that run between the callers'
\* steps: create_topic has one await; create_event_details is taken at its
\* write, no topic being deleted here between its lookup and its write.
NextPolls ==
    \/ create_topic
    \/ create_event_details
    \/ \E c \in Callers :
          \/ create_poll_results_user(c)
          \/ create_poll_results_event(c)
          \/ create_poll_results_create(c)
          \/ delete_user_fetch(c)
          \/ user_delete(c)
          \/ delete_event_fetch(c)
          \/ event_delete(c)

SpecPolls == Init /\ [][NextPolls]_vars

\* -------------------------------------------------------- telegram handlers
\* Python values whose type matters to `==`: an int and the str of its
\* decimal digits are different values.
PyInt(n) == [type |-> "int", v |-> n]
PyStr(n) == [type |-> "str", v |-> n]

\* The updates handed to a command handler: the chat's type and id and the
\* sender's account id.
Updates ==
    [chat_type: {"private", "supergroup"}, chat_id: {PyInt(500), PyInt(600)},
     from_user: TelegramIds]

\* The group_id handed to group_chat_only: a chat id, or the value settings
\* reads from the environment, which is a str.
GroupIdArgs == {PyInt(500), PyStr(500)}

\* The states the admin command returns.
MenuState == "MENU"
EndState == "END"

\* Variant of Guarded: a guard that lets every update through.
GuardedOpen(pass) == [invoked |-> TRUE, denials |-> 0, ret |-> "handled"]

\* What a guard's `wrapped` does with the outcome of its test: it awaits the
\* wrapped handler and returns what that returns, or sends one reply_text
\* and returns None.
Guarded(pass) ==
    IF pass THEN [invoked |-> TRUE, denials |-> 0, ret |-> "handled"]
    ELSE [invoked |-> FALSE, denials |-> 1, ret |-> None]

\* What `await UsersHandler.is_user_admin(telegram_id=user)` may return.
IsAdminResults(telegram_id) ==
    IF UsersByTelegramId(telegram_id) = {} THEN {FALSE}
    ELSE {users[u].admin : u \in UsersByTelegramId(telegram_id)}

private_chat_only ==
    \E update \in Updates :
        /\ res' = Result("private_chat_only", update, NoExc,
                         Guarded(update.chat_type = "private"))
        /\ UNCHANGED store
        /\ Rest

group_chat_only ==
    \E group_id \in GroupIdArgs, update \in Updates :
        /\ res' = Result("group_chat_only", <<group_id, update>>, NoExc,
                         Guarded(update.chat_id = group_id))
        /\ UNCHANGED store
        /\ Rest

user_is_admin ==
    \E update \in Updates, admin \in BOOLEAN :
        /\ admin \in IsAdminResults(update.from_user)
        /\ res' = Result("user_is_admin", update, NoExc, Guarded(admin))
        /\ UNCHANGED store
        /\ Rest

\* The admin command: the menu message and the menu state for an
\* administrator, the denial and the end state for anybody else.
admin_command ==
    \E update \in Updates, admin \in BOOLEAN :
        /\ admin \in IsAdminResults(update.from_user)
        /\ res' = Result("admin", update, NoExc,
                         IF admin
                         THEN [menus |-> 1, denials |-> 0, ret |-> MenuState]
                         ELSE [menus |-> 0, denials |-> 1, ret |-> EndState])
        /\ UNCHANGED store
        /\ Rest

NextGuards ==
    \/ private_chat_only
    \/ group_chat_only
    \/ user_is_admin
    \/ admin_command

SpecGuards == Init /\ [][NextGuards]_vars

\* The handlers that insert and delete rows, one call at a time.
Next ==
    \/ create_topic
    \/ get_topic_info
    \/ delete_topic
    \/ create_event_details
    \/ get_event_details
    \/ delete_event
    \/ create_poll_results
    \/ get_poll_results_by_user_id
    \/ delete_poll_results
    \/ delete_user

Spec == Init /\ [][Next]_vars

\* Every handler, called once on every store the create and delete handlers
\* build: these run freely, and the first call of any other handler is the
\* last call of the behaviour.  (An event has seven columns the update
\* handlers write independently; behaviours with any number of update calls
\* are more than can be enumerated.)
BuildOps ==
    {"start", "create_topic", "create_event_details", "create_poll_results",
     "delete_topic", "delete_user", "delete_event", "delete_poll_results"}

\* No handler other than a create or delete handler has been called yet.
Building == res.op \in BuildOps

NextCall ==
    \/ Building /\ create_topic
    \/ Building /\ get_topic_info
    \/ Building /\ rename_topic
    \/ Building /\ delete_topic
    \/ Building /\ is_user_admin
    \/ Building /\ get_user_info
    \/ Building /\ add_users
    \/ Building /\ delete_user
    \/ Building /\ update_callsign
    \/ Building /\ update_reserved
    \/ Building /\ update_warn
    \/ Building /\ create_event_details
    \/ Building /\ get_event_details
    \/ Building /\ update_event_name
    \/ Building /\ update_event_link
    \/ Building /\ update_organizer_rules
    \/ Building /\ update_latitude
    \/ Building /\ update_longitude
    \/ Building /\ update_price
    \/ Building /\ update_expire_date
    \/ Building /\ delete_event
    \/ Building /\ create_poll_results
    \/ Building /\ get_poll_results_by_user_id
    \/ Building /\ delete_poll_results

SpecCall == Init /\ [][NextCall]_vars

\* Table `new` keeps, unchanged, exactly the rows of `old` outside `gone`.
KeepsOthers(old, new, gone) ==
    /\ DOMAIN new = DOMAIN old \ gone
    /\ \A k \in DOMAIN new : new[k] = old[k]

\* C7: delete_user removes the polls of the deleted user, delete_event those
\* of the deleted event; no poll references the deleted row afterwards and
\* every other poll is unchanged.
C7_DeleteCascadesToPolls ==
    [][/\ (res'.op = "delete_user" /\ res'.exc = NoExc) =>
            \E u \in DOMAIN users :
                /\ users[u].telegram_id = res'.arg
                /\ KeepsOthers(users, users', {u})
                /\ \A p \in DOMAIN polls' : polls'[p].user # u
                /\ KeepsOthers(polls, polls', PollsOfUser(polls, u))
       /\ (res'.op = "delete_event" /\ res'.exc = NoExc) =>
            /\ res'.arg \in DOMAIN events
            /\ KeepsOthers(events, events', {res'.arg})
            /\ \A p \in DOMAIN polls' : polls'[p].event # res'.arg
            /\ KeepsOthers(polls, polls', PollsOfEvent(polls, res'.arg))]_vars

\* delete_user has returned; two polls had been created, and the one that is
\* left belongs to a user and an event that exist.
C7_Witness ==
    /\ res.op = "delete_user" /\ res.exc = NoExc
    /\ nextId.polls = 3
    /\ \E p \in DOMAIN polls :
          /\ DOMAIN polls = {p}
          /\ polls[p].user \in DOMAIN users
          /\ polls[p].event \in DOMAIN events
    /\ Cardinality(DOMAIN events) = nextId.events - 1

C9_UnknownTopicCreatesNothing ==
    [][(/\ res'.op = "create_event_details"
        /\ TopicsByTopicId(res'.arg.topic) = {})
       => /\ res'.exc = "DoesNotExist"
          /\ res'.val = "Topic"
          /\ UNCHANGED store]_vars

\* create_event_details has just been refused for an identifier no topic
\* carries, while a topic with another identifier exists.
C9_Witness ==
    /\ res.op = "create_event_details"
    /\ res.exc = "DoesNotExist"
    /\ TopicsByTopicId(res.arg.topic) = {}
    /\ topics # <<>>

\* C10: create_event_details, given data the validators accept, succeeds
\* whenever at least one topic carries the identifier: it creates exactly
\* one event, owned by a topic with that identifier, and returns its record;
\* the only fault of the topic lookup is DoesNotExist.
C10_DuplicateTopicIdsAccepted ==
    [][(res'.op = "create_event_details" /\ CoordsValid(res'.arg)) =>
         /\ res'.exc \in {NoExc, "DoesNotExist"}
         /\ TopicsByTopicId(res'.arg.topic) # {} =>
               /\ res'.exc = NoExc
               /\ \E e \in DOMAIN events' :
                     /\ DOMAIN events' = DOMAIN events \cup {e}
                     /\ e \notin DOMAIN events
                     /\ events'[e].topic \in TopicsByTopicId(res'.arg.topic)
                     /\ res'.val.id = e]_vars

\* C12: is_user_admin never raises and changes nothing: it returns False
\* when no user carries the id, and the stored admin flag of the user that
\* carries it otherwise.
C12_IsUserAdminNeverFaults ==
    [][res'.op = "is_user_admin" =>
         /\ res'.exc = NoExc
         /\ UNCHANGED store
         /\ IF UsersByTelegramId(res'.arg) = {}
            THEN res'.val = FALSE
            ELSE \E u \in UsersByTelegramId(res'.arg) : res'.val = users[u].admin]_vars

\* is_user_admin has returned False for an id no user carries, while an
\* administrator is stored.
C12_Witness ==
    /\ res.op = "is_user_admin"
    /\ res.exc = NoExc
    /\ res.val = FALSE
    /\ UsersByTelegramId(res.arg) = {}
    /\ \E u \in DOMAIN users : users[u].admin

\* C16: an update_reserved call on an existing user returns the user with
\* the reserved flag negated, persists exactly that change and no other; a
\* call that follows a call on the same user leaves the flag at the value it
\* had before the first of the two.
C16_ReservedOwnInverse ==
    [][(res'.op = "update_reserved" /\ UsersByTelegramId(res'.arg) # {}) =>
         \E u \in UsersByTelegramId(res'.arg) :
             /\ res'.exc = NoExc
             /\ res'.val = UserObj(u, users'[u])
             /\ res'.val.reserved = ~users[u].reserved
             /\ users' = [users EXCEPT ![u].reserved = ~users[u].reserved]
             /\ UNCHANGED <<topics, events, polls, nextId>>
             /\ (res.op = "update_reserved" /\ res.exc = NoExc /\ res.val.id = u)
                => users'[u].reserved = ~res.val.reserved]_vars

\* An update_reserved call has brought a user's flag back to False, the
\* value every user starts with, while another user is stored.
C16_Witness ==
    /\ res.op = "update_reserved"
    /\ res.exc = NoExc
    /\ res.val.reserved = FALSE
    /\ res.val.id \in DOMAIN users
    /\ users[res.val.id].reserved = FALSE
    /\ Cardinality(DOMAIN users) = 2

\* C18: update_warn(u, n) on an existing user stores exactly n as the
\* user's warn, whatever it was, returns the updated user, and changes no
\* other column of the row, no other row and no other table.
C18_WarnSetExactly ==
    [][(res'.op = "update_warn" /\ UsersByTelegramId(res'.arg[1]) # {}) =>
         \E u \in UsersByTelegramId(res'.arg[1]) :
             /\ res'.exc = NoExc
             /\ users' = [users EXCEPT ![u].warn = res'.arg[2]]
             /\ res'.val = UserObj(u, users'[u])
             /\ res'.val.warn = res'.arg[2]
             /\ UNCHANGED <<topics, events, polls, nextId>>]_vars

\* update_warn(u, 1) has returned for a user that is reserved and holds a
\* callsign, while another user carries a warn of its own.
C18_Witness ==
    /\ res.op = "update_warn"
    /\ res.exc = NoExc
    /\ res.arg[2] = 1
    /\ users[res.val.id].warn = 1
    /\ users[res.val.id].reserved
    /\ users[res.val.id].callsign # None
    /\ \E o \in DOMAIN users \ {res.val.id} : users[o].warn = 1

\* C13: get_poll_results_by_user_id raises DoesNotExist exactly when no user
\* has the surrogate id, naming the user; for a user that exists and owns
\* no poll it returns None without raising; it changes nothing.
C13_PollLookupNotFoundIffNoUser ==
    [][res'.op = "get_poll_results_by_user_id" =>
         /\ (res'.exc = "DoesNotExist") <=> (res'.arg \notin DOMAIN users)
         /\ res'.exc = "DoesNotExist" => res'.val = "User"
         /\ (res'.arg \in DOMAIN users /\ PollsOfUser(polls, res'.arg) = {})
            => (res'.exc = NoExc /\ res'.val = None)
         /\ UNCHANGED store]_vars

\* get_poll_results_by_user_id has returned None for a user that exists and
\* owns no poll, while another user owns one.
C13_Witness ==
    /\ res.op = "get_poll_results_by_user_id"
    /\ res.exc = NoExc
    /\ res.val = None
    /\ res.arg \in DOMAIN users
    /\ PollsOfUser(polls, res.arg) = {}
    /\ polls # <<>>

\* C14: for a user that exists and owns one or more polls,
\* get_poll_results_by_user_id returns the record of one of the user's polls
\* and does not raise.
C14_ReturnsFirstPoll ==
    [][(/\ res'.op = "get_poll_results_by_user_id"
        /\ res'.arg \in DOMAIN users
        /\ PollsOfUser(polls, res'.arg) # {})
       => /\ res'.exc = NoExc
          /\ \E p \in PollsOfUser(polls, res'.arg) :
                res'.val = PollInfo(p, polls[p])]_vars

\* C15: create_poll_results raises DoesNotExist naming the user when the
\* user is missing (whether or not the event is), naming the event when only
\* the event is missing, and creates nothing in both cases; when both exist
\* it inserts exactly one poll, referencing that user and that event, and
\* returns its record.
C15_PollNeedsUserAndEvent ==
    [][res'.op = "create_poll_results" =>
         LET d == res'.arg IN
         IF d.user_id \notin DOMAIN users
         THEN res'.exc = "DoesNotExist" /\ res'.val = "User" /\ UNCHANGED store
         ELSE IF d.event_id \notin DOMAIN events
         THEN res'.exc = "DoesNotExist" /\ res'.val = "Event" /\ UNCHANGED store
         ELSE /\ res'.exc = NoExc
              /\ \E p \in DOMAIN polls' :
                    /\ p \notin DOMAIN polls
                    /\ DOMAIN polls' = DOMAIN polls \cup {p}
                    /\ \A o \in DOMAIN polls : polls'[o] = polls[o]
                    /\ polls'[p].user = d.user_id
                    /\ polls'[p].event = d.event_id
                    /\ res'.val = PollInfo(p, polls'[p])
              /\ UNCHANGED <<topics, users, events>>]_vars

\* create_poll_results has returned the record of a second poll.
C15_Witness ==
    /\ res.op = "create_poll_results"
    /\ res.exc = NoExc
    /\ res.val.id \in DOMAIN polls
    /\ polls[res.val.id].user = res.arg.user_id
    /\ polls[res.val.id].event = res.arg.event_id
    /\ Cardinality(DOMAIN polls) = 2

C17_WriteIsStale ==
    [][\A c \in Callers :
          (/\ pc[c] = "save" /\ pc'[c] = "idle"
           /\ loc[c].user.id \in DOMAIN users)
          => /\ users' = [users EXCEPT ![loc[c].user.id] = UserRow(loc[c].user)]
             /\ res'.exc = NoExc
             /\ res'.val = loc[c].user]_vars

\* Two update_reserved calls have fetched the same row and neither has
\* written yet.
C17_Witness ==
    \E c, d \in Callers :
        /\ c # d
        /\ pc[c] = "save" /\ loc[c].op = "update_reserved"
        /\ pc[d] = "save" /\ loc[d].op = "update_reserved"
        /\ loc[c].user = loc[d].user
        /\ loc[c].user.id \in DOMAIN users
        /\ users[loc[c].user.id].reserved = ~loc[c].user.reserved

\* The identifier of call `op` with arguments `arg` matches no row, for the
\* handlers that fetch a row by identifier and raise when there is none; and
\* the entity their DoesNotExist names.
Missing(op, arg) ==
    CASE op \in {"get_topic_info", "delete_topic"} -> TopicsByTopicId(arg) = {}
      [] op = "rename_topic" -> TopicsByTopicId(arg[1]) = {}
      [] op \in {"get_user_info", "delete_user", "update_reserved"} ->
            UsersByTelegramId(arg) = {}
      [] op \in {"update_callsign", "update_warn"} -> UsersByTelegramId(arg[1]) = {}
      [] op \in {"get_event_details", "delete_event"} -> arg \notin DOMAIN events
      [] op \in DOMAIN EventColumn -> arg[1] \notin DOMAIN events
      [] op = "delete_poll_results" -> arg \notin DOMAIN polls
      [] OTHER -> FALSE

EntityOf(op) ==
    CASE op \in {"get_topic_info", "rename_topic", "delete_topic"} -> "Topic"
      [] op \in {"get_user_info", "delete_user", "update_callsign",
                 "update_reserved", "update_warn"} -> "User"
      [] op = "delete_poll_results" -> "Poll"
      [] OTHER -> "Event"

\* C11: a call of get_topic_info, rename_topic, delete_topic, get_user_info,
\* delete_user, update_callsign, update_reserved, update_warn,
\* get_event_details, one of the seven event updates, delete_event or
\* delete_poll_results whose identifier matches no row raises DoesNotExist
\* naming the entity and leaves every table unchanged.
C11_MissingRowRaises ==
    [][Missing(res'.op, res'.arg) =>
         /\ res'.exc = "DoesNotExist"
         /\ res'.val = EntityOf(res'.op)
         /\ UNCHANGED store]_vars

\* An event update has raised DoesNotExist for an id no event has, while
\* another event is stored.
C11_Witness ==
    /\ res.op \in DOMAIN EventColumn
    /\ res.exc = "DoesNotExist"
    /\ res.arg[1] \notin DOMAIN events
    /\ events # <<>>

\* C19: an event update called with a value the validators accept, on an
\* event that exists, changes exactly its column of exactly that row, leaves
\* every other table unchanged and returns the event's record with the new
\* value.
C19_UpdateChangesOneField ==
    [][(/\ res'.op \in DOMAIN EventColumn
        /\ res'.arg[1] \in DOMAIN events
        /\ CoordsValid([events[res'.arg[1]] EXCEPT
                           ![EventColumn[res'.op]] = res'.arg[2]]))
       => /\ events' = [events EXCEPT
                           ![res'.arg[1]][EventColumn[res'.op]] = res'.arg[2]]
          /\ UNCHANGED <<topics, users, polls, nextId>>
          /\ res'.exc = NoExc
          /\ res'.val = EventInfo(res'.arg[1], events'[res'.arg[1]],
                                  events'[res'.arg[1]].topic)]_vars

\* C21: when topics carry the identifier, get_topic_info returns the record
\* of one of them and changes nothing, rename_topic changes the name of
\* exactly one of them and nothing else, and delete_topic removes exactly
\* one of them: of k rows carrying the identifier k - 1 are left, unchanged.
C21_TopicOpsActOnOneRow ==
    [][/\ (res'.op = "get_topic_info" /\ TopicsByTopicId(res'.arg) # {}) =>
            /\ res'.exc = NoExc
            /\ \E t \in TopicsByTopicId(res'.arg) : res'.val = TopicInfo(t, topics[t])
            /\ UNCHANGED store
       /\ (res'.op = "rename_topic" /\ TopicsByTopicId(res'.arg[1]) # {}) =>
            /\ res'.exc = NoExc
            /\ \E t \in TopicsByTopicId(res'.arg[1]) :
                  topics' = [topics EXCEPT ![t].topic_name = res'.arg[2]]
            /\ UNCHANGED <<users, events, polls, nextId>>
       /\ (res'.op = "delete_topic" /\ TopicsByTopicId(res'.arg) # {}) =>
            /\ res'.exc = NoExc
            /\ \E t \in TopicsByTopicId(res'.arg) : KeepsOthers(topics, topics', {t})
            /\ Cardinality({t \in DOMAIN topics' : topics'[t].topic_id = res'.arg})
                  = Cardinality(TopicsByTopicId(res'.arg)) - 1]_vars

\* delete_topic has returned and a topic carrying the identifier is left.
C21_Witness ==
    /\ res.op = "delete_topic"
    /\ res.exc = NoExc
    /\ TopicsByTopicId(res.arg) # {}

\* C22: the record create_event_details returns for the event it created,
\* and the record get_event_details returns for an event that exists, carry
\* the surrogate id of the owning topic row and the name that row holds at
\* the time of the call.
C22_RecordCarriesTopic ==
    [][/\ (res'.op = "create_event_details" /\ res'.exc = NoExc) =>
            /\ res'.val.id \in DOMAIN events'
            /\ res'.val.topic_id = events'[res'.val.id].topic
            /\ res'.val.topic_name = topics[res'.val.topic_id].topic_name
       /\ (res'.op = "get_event_details" /\ res'.arg \in DOMAIN events) =>
            /\ res'.exc = NoExc
            /\ res'.val = EventInfo(res'.arg, events[res'.arg],
                                    events[res'.arg].topic)]_vars

\* Surrogate id `id` has been given to a row of table `tbl` (whose next id
\* is `next`) and the row is no longer there.
Gone(tbl, next, id) == id < next /\ id \notin DOMAIN tbl

\* C23: a delete_event or delete_poll_results call that returns leaves no
\* row with the id; an id whose row is gone never has a row again (new rows
\* get the next id, which only grows); and get_event_details, the seven
\* event updates and delete_event on the id of a gone event, and
\* delete_poll_results on the id of a gone poll, raise DoesNotExist.
C23_DeletionPermanent ==
    [][/\ (res'.op = "delete_event" /\ res'.exc = NoExc) =>
            Gone(events', nextId'.events, res'.arg)
       /\ (res'.op = "delete_poll_results" /\ res'.exc = NoExc) =>
            Gone(polls', nextId'.polls, res'.arg)
       /\ \A id \in 1..MaxEvents :
             Gone(events, nextId.events, id) =>
                /\ Gone(events', nextId'.events, id)
                /\ (res'.op \in {"get_event_details", "delete_event"} /\ res'.arg = id)
                   => res'.exc = "DoesNotExist"
                /\ (res'.op \in DOMAIN EventColumn /\ res'.arg[1] = id)
                   => res'.exc = "DoesNotExist"
       /\ \A id \in 1..MaxPolls :
             Gone(polls, nextId.polls, id) =>
                /\ Gone(polls', nextId'.polls, id)
                /\ (res'.op = "delete_poll_results" /\ res'.arg = id)
                   => res'.exc = "DoesNotExist"]_vars

\* An event update has raised DoesNotExist for event 1, which was deleted
\* (no topic was), while event 2 is stored.
C23_Witness ==
    /\ res.op \in DOMAIN EventColumn
    /\ res.exc = "DoesNotExist"
    /\ res.arg[1] = 1
    /\ nextId.events = 3
    /\ DOMAIN events = {2}
    /\ Cardinality(DOMAIN topics) = nextId.topics - 1

\* C24: every poll references a user row and an event row that exist,
\* whatever create and delete calls run and however their steps interleave.
C24_PollsReferenceExistingRows ==
    \A p \in DOMAIN polls :
        polls[p].user \in DOMAIN users /\ polls[p].event \in DOMAIN events

\* A create_poll_results call found its user and its event, one of them was
\* deleted before its insert, and the store refused the insert; another
\* poll is stored.
C24_Witness ==
    /\ res.op = "create_poll_results"
    /\ res.exc = "IntegrityError"
    /\ polls # <<>>

\* C25: no user handler changes the admin flag of a row it leaves in the
\* table, a row a handler inserts is no administrator's, and while no row
\* is an administrator's (as in a store that starts empty) is_user_admin
\* returns False for every id.
C25_AdminNeverChanged ==
    [][/\ \A u \in DOMAIN users \cap DOMAIN users' : users'[u].admin = users[u].admin
       /\ \A u \in DOMAIN users' \ DOMAIN users : ~users'[u].admin
       /\ (res'.op = "is_user_admin" /\ \A u \in DOMAIN users : ~users[u].admin)
          => res'.val = FALSE]_vars

\* is_user_admin has returned False for a user that exists, is reserved and
\* holds a callsign, in a store with no administrator.
C25_Witness ==
    /\ res.op = "is_user_admin"
    /\ res.val = FALSE
    /\ \A u \in DOMAIN users : ~users[u].admin
    /\ \E u \in UsersByTelegramId(res.arg) :
          users[u].reserved /\ users[u].callsign # None

\* The sender of `update` is an administrator in the store.
SenderIsAdmin(update) ==
    \E u \in UsersByTelegramId(update.from_user) : users[u].admin

\* The wrapped handler ran and no denial was sent, or it did not run, one
\* denial was sent and the guard returned None.
RanOrDenied(val) ==
    \/ val.invoked /\ val.denials = 0
    \/ ~val.invoked /\ val.denials = 1 /\ val.ret = None

\* C26: a handler behind private_chat_only runs exactly when the chat is
\* private, one behind group_chat_only(g) exactly when the chat id equals g,
\* one behind user_is_admin exactly when the sender is an administrator;
\* otherwise it does not run and one denial is sent.  The admin command
\* returns the menu state for an administrator, and the end state with one
\* denial for anybody else.  None of them changes the store.
C26_GuardsAdmit ==
    [][/\ res'.op = "private_chat_only" =>
            /\ res'.val.invoked <=> (res'.arg.chat_type = "private")
            /\ RanOrDenied(res'.val)
       /\ res'.op = "group_chat_only" =>
            /\ res'.val.invoked <=> (res'.arg[2].chat_id = res'.arg[1])
            /\ RanOrDenied(res'.val)
       /\ res'.op = "user_is_admin" =>
            /\ res'.val.invoked <=> SenderIsAdmin(res'.arg)
            /\ RanOrDenied(res'.val)
       /\ res'.op = "admin" =>
            /\ res'.val.ret = IF SenderIsAdmin(res'.arg) THEN MenuState ELSE EndState
            /\ res'.val.denials = IF SenderIsAdmin(res'.arg) THEN 0 ELSE 1
       /\ UNCHANGED store]_vars

\* user_is_admin has denied a sender who is a user but no administrator,
\* while an administrator is stored.
C26_Witness ==
    /\ res.op = "user_is_admin"
    /\ ~res.val.invoked
    /\ res.val.denials = 1
    /\ UsersByTelegramId(res.arg.from_user) # {}
    /\ \E u \in DOMAIN users : users[u].admin

\* C27: create_event_details leaves the caller's dictionary as it was
\* passed, and a second call with the dictionary of a call that created an
\* event creates another event, owned by the same topic.
C27_CallerRecordUnchanged ==
    [][res'.op = "create_event_details" =>
         /\ res'.left = res'.arg
         /\ (/\ res.op = "create_event_details"
             /\ res.exc = NoExc
             /\ res'.arg = res.left)
            => /\ res'.exc = NoExc
               /\ res'.val.id \in DOMAIN events' \ DOMAIN events
               /\ events'[res'.val.id].topic = events[res.val.id].topic]_vars

====
